---------------------------- MODULE Spec2Model ----------------------------
(***************************************************************************)
(* Spherical capture guidance of space-clone:                              *)
(*   web/src/lib/capture-positions.ts                                      *)
(* The position catalog, the adjacency map, the alignment evaluator, the   *)
(* next-position selector and the ring progress reporter.                  *)
(*   web/src/hooks/use-device-orientation.ts, web/src/app/capture/page.tsx *)
(* The orientation hook and the capture session of the capture page.       *)
(*                                                                         *)
(* Conventions of the translation:                                         *)
(*   - a JavaScript array is a sequence; slot i of the array (0-based) is  *)
(*     element i + 1 of the sequence;                                      *)
(*   - "T | null" and "T | undefined" are sequences of length <= 1:        *)
(*     <<>> is null / undefined and <<v>> is the value v;                  *)
(*   - angles are integer degrees, as published by the orientation hook    *)
(*     (Math.round); JavaScript's % keeps the sign of the dividend;        *)
(*   - raw sensor angles, which Math.round has not yet seen, are integers  *)
(*     in half degrees (719 is 359.5 degrees).                             *)
(***************************************************************************)
EXTENDS Integers, Sequences, FiniteSets, TLC

VARIABLES
    call, ret,                       \* the last call or handler, its result
    capturedMap, startHeadingRef,    \* CapturePage: state and ref
    isCapturing, flashVisible,
    isUploading, upload,             \*   handleDone: the form data posted
    activeIndex, alignment,          \*   the two useMemo values
    orientation,                     \* useDeviceOrientation: heading, pitch
                                     \*   and isTracking as returned
    lastHeading, lastPitch           \*   and its refs

\* The variables of the capture page and of its orientation hook.
session ==
    <<capturedMap, startHeadingRef, isCapturing, flashVisible, isUploading,
      upload, activeIndex, alignment, orientation, lastHeading, lastPitch>>

vars == <<call, ret, session>>

null == <<>>

Some(v) == <<v>>

Abs(x) == IF x < 0 THEN 0 - x ELSE x

\* JavaScript a % b for b > 0: the remainder has the sign of the dividend.
JsMod(a, b) == IF a >= 0 THEN a % b ELSE 0 - ((0 - a) % b)

-----------------------------------------------------------------------------
(* Position catalog: buildPositions, CAPTURE_POSITIONS, RING_INFO           *)

RingName == {"zenith", "upper", "equator", "lower", "nadir"}

\* positions.push({ index: idx++, ... }): idx starts at 0 and is incremented
\* by every push, so idx is the length of the array before the push.
Push(positions, ring, heading, pitch, label) ==
    Append(positions, [index |-> Len(positions), ring |-> ring,
                       heading |-> heading, pitch |-> pitch, label |-> label])

eqLabels ==
    <<"Front", "Front-Right", "Right", "Back-Right",
      "Back", "Back-Left", "Left", "Front-Left">>

\* for (let i = 0; i < 6; i++) positions.push({ ring: "upper", heading: i * 60, pitch: 55 })
RECURSIVE PushUpper(_, _)
PushUpper(positions, i) ==
    IF i < 6
    THEN PushUpper(Push(positions, "upper", i * 60, 55,
                        "Upper " \o ToString(i + 1) \o "/6"), i + 1)
    ELSE positions

\* for (let i = 0; i < 8; i++) positions.push({ ring: "equator", heading: i * 45, pitch: 0 })
RECURSIVE PushEquator(_, _)
PushEquator(positions, i) ==
    IF i < 8
    THEN PushEquator(Push(positions, "equator", i * 45, 0, eqLabels[i + 1]), i + 1)
    ELSE positions

\* for (let i = 0; i < 6; i++) positions.push({ ring: "lower", heading: i * 60 + 30, pitch: -55 })
PushLower_NoOffset(positions, i) ==
    LET RECURSIVE Loop(_, _)
        Loop(ps, k) ==
            IF k < 6
            THEN Loop(Push(ps, "lower", k * 60, 0 - 55,
                           "Lower " \o ToString(k + 1) \o "/6"), k + 1)
            ELSE ps
    IN  Loop(positions, i)

RECURSIVE PushLower(_, _)
PushLower(positions, i) ==
    IF i < 6
    THEN PushLower(Push(positions, "lower", i * 60 + 30, 0 - 55,
                        "Lower " \o ToString(i + 1) \o "/6"), i + 1)
    ELSE positions

buildPositions ==
    LET p0 == Push(<<>>, "zenith", 0, 90, "Ceiling")
        p1 == PushUpper(p0, 0)
        p2 == PushEquator(p1, 0)
        p3 == PushLower(p2, 0)
    IN  Push(p3, "nadir", 0, 0 - 90, "Floor")

CAPTURE_POSITIONS == buildPositions

TOTAL_POSITIONS == Len(CAPTURE_POSITIONS)

RING_INFO ==
    [zenith  |-> [label |-> "Ceiling",    count |-> 1],
     upper   |-> [label |-> "Upper Ring", count |-> 6],
     equator |-> [label |-> "Equator",    count |-> 8],
     lower   |-> [label |-> "Lower Ring", count |-> 6],
     nadir   |-> [label |-> "Floor",      count |-> 1]]

\* CAPTURE_POSITIONS[idx]: the entry of slot idx, undefined outside the array.
PosAt(idx) ==
    IF idx >= 0 /\ idx < Len(CAPTURE_POSITIONS)
    THEN Some(CAPTURE_POSITIONS[idx + 1])
    ELSE null

-----------------------------------------------------------------------------
(* Alignment detection: angleDiff, isAlignedWithPosition                    *)

\* let d = Math.abs(a - b) % 360 without the fold of d > 180.
angleDiff_NoFold(a, b) == Abs(a - b) % 360

\* Smallest angle between two compass headings (0-180).
angleDiff(a, b) ==
    LET d == JsMod(Abs(a - b), 360)
    IN  IF d > 180 THEN 360 - d ELSE d

\* The value isAlignedWithPosition returns when CAPTURE_POSITIONS[positionIndex]
\* is undefined.
NotAligned ==
    [aligned |-> FALSE, headingAligned |-> FALSE, pitchAligned |-> FALSE,
     headingDelta |-> 999, pitchDelta |-> 999]

\* A property read on undefined: the call does not return, it throws.
TypeError == [threw |-> "TypeError"]

\* headingTolerance: number = 15, pitchTolerance: number = 15. opt is the
\* sequence of the optional trailing arguments the caller passed.
headingToleranceOf(opt) == IF Len(opt) >= 1 THEN opt[1] ELSE 15

pitchToleranceOf(opt) == IF Len(opt) >= 2 THEN opt[2] ELSE 15

\* The zenith/nadir early return of isAlignedWithPosition.
PolarResult(pitchDelta, pitchAligned) ==
    [aligned |-> pitchAligned, headingAligned |-> TRUE,
     pitchAligned |-> pitchAligned, headingDelta |-> 0,
     pitchDelta |-> pitchDelta]

\* The final return of isAlignedWithPosition, for targetHeading.
HeadingResult(heading, targetHeading, headingTolerance, pitchDelta, pitchAligned) ==
    LET headingDelta == angleDiff(heading, targetHeading)
        headingAligned == headingDelta <= headingTolerance
    IN  [aligned |-> headingAligned /\ pitchAligned,
         headingAligned |-> headingAligned, pitchAligned |-> pitchAligned,
         headingDelta |-> headingDelta, pitchDelta |-> pitchDelta]

\* isAlignedWithPosition without the "if (!pos)" guard: pos.pitch on undefined.
isAligned_NoGuard(heading, pitch, positionIndex, startHeading, opt) ==
    LET pos == PosAt(positionIndex)
    IN  IF pos = null
        THEN TypeError
        ELSE LET pitchDelta == Abs(pitch - pos[1].pitch)
                 pitchAligned == pitchDelta <= pitchToleranceOf(opt)
             IN  IF pos[1].ring = "zenith" \/ pos[1].ring = "nadir"
                 THEN PolarResult(pitchDelta, pitchAligned)
                 ELSE HeadingResult(heading,
                                    JsMod(startHeading + pos[1].heading, 360),
                                    headingToleranceOf(opt), pitchDelta, pitchAligned)

\* isAlignedWithPosition with the target heading taken as the start heading
\* alone (pos.heading dropped).
isAligned_NoOffset(heading, pitch, positionIndex, startHeading, opt) ==
    LET pos == PosAt(positionIndex)
    IN  IF pos = null
        THEN NotAligned
        ELSE LET pitchDelta == Abs(pitch - pos[1].pitch)
                 pitchAligned == pitchDelta <= pitchToleranceOf(opt)
             IN  IF pos[1].ring = "zenith" \/ pos[1].ring = "nadir"
                 THEN PolarResult(pitchDelta, pitchAligned)
                 ELSE HeadingResult(heading, JsMod(startHeading, 360),
                                    headingToleranceOf(opt), pitchDelta, pitchAligned)

\* isAlignedWithPosition with the heading-independent early return taken for
\* the zenith only.
isAligned_ZenithOnly(heading, pitch, positionIndex, startHeading, opt) ==
    LET pos == PosAt(positionIndex)
    IN  IF pos = null
        THEN NotAligned
        ELSE LET pitchDelta == Abs(pitch - pos[1].pitch)
                 pitchAligned == pitchDelta <= pitchToleranceOf(opt)
             IN  IF pos[1].ring = "zenith"
                 THEN PolarResult(pitchDelta, pitchAligned)
                 ELSE HeadingResult(heading,
                                    JsMod(startHeading + pos[1].heading, 360),
                                    headingToleranceOf(opt), pitchDelta, pitchAligned)

isAlignedWithPosition(heading, pitch, positionIndex, startHeading, opt) ==
    LET pos == PosAt(positionIndex)
    IN  IF pos = null
        THEN NotAligned
        ELSE LET pitchDelta == Abs(pitch - pos[1].pitch)
                 pitchAligned == pitchDelta <= pitchToleranceOf(opt)
             IN  IF pos[1].ring = "zenith" \/ pos[1].ring = "nadir"
                 THEN PolarResult(pitchDelta, pitchAligned)
                 ELSE HeadingResult(heading,
                                    JsMod(startHeading + pos[1].heading, 360),
                                    headingToleranceOf(opt), pitchDelta, pitchAligned)

-----------------------------------------------------------------------------
(* Adjacency: buildAdjacency, ADJACENCY_MAP, getAdjacentPositions           *)

\* The if / else-if chain without the branch for pj at a pole (reverse of the
\* zenith -> upper and nadir -> lower branch).
AdjacencyRule_NoReverse(pi, pj) ==
    LET hDiff == angleDiff(pi.heading, pj.heading)
    IN  IF pi.ring = pj.ring /\ pi.ring = "equator" /\ hDiff <= 50
        THEN TRUE
        ELSE IF pi.ring = pj.ring /\ pi.ring # "equator" /\ pi.ring # "zenith"
                /\ pi.ring # "nadir" /\ hDiff <= 65
        THEN TRUE
        ELSE IF (pi.ring = "zenith" /\ pj.ring = "upper")
                \/ (pi.ring = "nadir" /\ pj.ring = "lower")
        THEN TRUE
        ELSE IF ((pi.ring = "upper" /\ pj.ring = "equator")
                 \/ (pi.ring = "equator" /\ pj.ring = "upper")
                 \/ (pi.ring = "equator" /\ pj.ring = "lower")
                 \/ (pi.ring = "lower" /\ pj.ring = "equator"))
                /\ hDiff <= 35
        THEN TRUE
        ELSE FALSE

\* The if / else-if chain of the inner loop: whether neighbors.push(j) runs
\* for the entries pi = p[i] and pj = p[j].
AdjacencyRule(pi, pj) ==
    LET hDiff == angleDiff(pi.heading, pj.heading)
    IN  IF pi.ring = pj.ring /\ pi.ring = "equator" /\ hDiff <= 50
        THEN TRUE
        ELSE IF pi.ring = pj.ring /\ pi.ring # "equator" /\ pi.ring # "zenith"
                /\ pi.ring # "nadir" /\ hDiff <= 65
        THEN TRUE
        ELSE IF (pi.ring = "zenith" /\ pj.ring = "upper")
                \/ (pi.ring = "nadir" /\ pj.ring = "lower")
        THEN TRUE
        ELSE IF (pj.ring = "zenith" /\ pi.ring = "upper")
                \/ (pj.ring = "nadir" /\ pi.ring = "lower")
        THEN TRUE
        ELSE IF ((pi.ring = "upper" /\ pj.ring = "equator")
                 \/ (pi.ring = "equator" /\ pj.ring = "upper")
                 \/ (pi.ring = "equator" /\ pj.ring = "lower")
                 \/ (pi.ring = "lower" /\ pj.ring = "equator"))
                /\ hDiff <= 35
        THEN TRUE
        ELSE FALSE

\* The inner loop body without "if (i === j) continue".
IsNeighbor_NoSelfSkip(i, j) ==
    AdjacencyRule(CAPTURE_POSITIONS[i + 1], CAPTURE_POSITIONS[j + 1])

\* The inner loop body with the cross-ring branch left out.
IsNeighbor_NoCrossRing(i, j) ==
    /\ i # j
    /\ LET pi == CAPTURE_POSITIONS[i + 1]
           pj == CAPTURE_POSITIONS[j + 1]
       IN  /\ AdjacencyRule(pi, pj)
           /\ ~(pi.ring = "equator" /\ pj.ring \in {"upper", "lower"})
           /\ ~(pj.ring = "equator" /\ pi.ring \in {"upper", "lower"})

\* The inner loop body for the pair (i, j): TRUE when j is pushed.
IsNeighbor(i, j) ==
    /\ i # j
    /\ AdjacencyRule(CAPTURE_POSITIONS[i + 1], CAPTURE_POSITIONS[j + 1])

\* adj.set(i, neighbors) for every i, neighbors in ascending order of j.
buildAdjacency ==
    [i \in 0 .. (Len(CAPTURE_POSITIONS) - 1) |->
        LET Pushed(j) == IsNeighbor(i, j)
        IN  SelectSeq([k \in 1 .. Len(CAPTURE_POSITIONS) |-> k - 1], Pushed)]

ADJACENCY_MAP == buildAdjacency

\* ADJACENCY_MAP.get(positionIndex) ?? []
getAdjacentPositions(positionIndex) ==
    IF positionIndex \in DOMAIN ADJACENCY_MAP
    THEN ADJACENCY_MAP[positionIndex]
    ELSE <<>>

-----------------------------------------------------------------------------
(* Smart ordering: RING_PRIORITY, getNextUncaptured                         *)

\* The priority list with the upper ring ahead of the equator.
RING_PRIORITY_UpperFirst == <<"upper", "equator", "lower", "zenith", "nadir">>

\* The priority list with the last ring left out.
RING_PRIORITY_NoNadir == <<"equator", "upper", "lower", "zenith">>

\* Preferred capture order: equator first, then upper, lower, zenith, nadir.
RING_PRIORITY == <<"equator", "upper", "lower", "zenith", "nadir">>

\* CAPTURE_POSITIONS.filter((p) => p.ring === ring && !capturedSet.has(p.index))
Candidates(ring, capturedSet) ==
    LET Keep(p) == p.ring = ring /\ p.index \notin capturedSet
    IN  SelectSeq(CAPTURE_POSITIONS, Keep)

\* const dist = hDiff + pDiff * 1.5, kept as the integer 2 * dist = 2 * hDiff
\* + 3 * pDiff: the code only compares distances with <, which doubling keeps.
Dist2(c, currentHeading, currentPitch, startHeading) ==
    LET targetH == JsMod(startHeading + c.heading, 360)
        hDiff == angleDiff(currentHeading, targetH)
        pDiff == Abs(currentPitch - c.pitch)
    IN  2 * hDiff + 3 * pDiff

\* "if (dist <= bestDist)": the last of several nearest candidates wins.
Closer_OrEqual(dist, bestDist) == bestDist = null \/ dist <= bestDist[1]

\* "if (dist < bestDist)", bestDist = Infinity (null here) before the first
\* candidate.
Closer(dist, bestDist) == bestDist = null \/ dist < bestDist[1]

\* for (const c of candidates) { ... if (dist < bestDist) { bestDist = dist; best = c } }
\* from candidate k on; returns best (null or a position).
RECURSIVE Nearest(_, _, _, _, _, _, _)
Nearest(candidates, k, best, bestDist, currentHeading, currentPitch, startHeading) ==
    IF k > Len(candidates)
    THEN best
    ELSE LET c == candidates[k]
             dist == Dist2(c, currentHeading, currentPitch, startHeading)
         IN  IF Closer(dist, bestDist)
             THEN Nearest(candidates, k + 1, Some(c), Some(dist),
                          currentHeading, currentPitch, startHeading)
             ELSE Nearest(candidates, k + 1, best, bestDist,
                          currentHeading, currentPitch, startHeading)

\* for (const ring of RING_PRIORITY) { ... } return null, from ring r on.
RECURSIVE RingLoop(_, _, _, _, _)
RingLoop(r, capturedSet, currentHeading, currentPitch, startHeading) ==
    IF r > Len(RING_PRIORITY)
    THEN null
    ELSE LET candidates == Candidates(RING_PRIORITY[r], capturedSet)
             best == Nearest(candidates, 1, null, null,
                             currentHeading, currentPitch, startHeading)
         IN  IF Len(candidates) = 0
             THEN RingLoop(r + 1, capturedSet, currentHeading, currentPitch,
                           startHeading)
             ELSE IF best # null
             THEN Some(best[1].index)
             ELSE RingLoop(r + 1, capturedSet, currentHeading, currentPitch,
                           startHeading)

\* Returns number | null: <<index>> or <<>>.
getNextUncaptured(capturedSet, currentHeading, currentPitch, startHeading) ==
    RingLoop(1, capturedSet, currentHeading, currentPitch, startHeading)

-----------------------------------------------------------------------------
(* Progress and guidance: getRingProgress, getDirectionLabel,               *)
(* getPitchGuidance                                                         *)

\* The loop of getRingProgress without the increment.
CountLoop_NoIncrement(progress, rest) == progress

\* for (const idx of capturedSet) { const pos = CAPTURE_POSITIONS[idx];
\*   if (pos) progress[pos.ring].done++ }, over the members not yet visited.
RECURSIVE CountLoop(_, _)
CountLoop(progress, rest) ==
    IF rest = {}
    THEN progress
    ELSE LET idx == CHOOSE x \in rest : TRUE
             pos == PosAt(idx)
         IN  CountLoop(IF pos # null
                       THEN [progress EXCEPT ![pos[1].ring].done = @ + 1]
                       ELSE progress,
                       rest \ {idx})

getRingProgress(capturedSet) ==
    CountLoop([zenith  |-> [done |-> 0, total |-> 1],
               upper   |-> [done |-> 0, total |-> 6],
               equator |-> [done |-> 0, total |-> 8],
               lower   |-> [done |-> 0, total |-> 6],
               nadir   |-> [done |-> 0, total |-> 1]],
              capturedSet)

getDirectionLabel(positionIndex) ==
    LET pos == PosAt(positionIndex)
    IN  IF pos = null THEN ""
        ELSE CASE pos[1].ring = "zenith"  -> "Point camera at ceiling"
               [] pos[1].ring = "nadir"   -> "Point camera at floor"
               [] pos[1].ring = "upper"   -> "Look up " \o pos[1].label
               [] pos[1].ring = "lower"   -> "Look down " \o pos[1].label
               [] pos[1].ring = "equator" -> pos[1].label

\* The degree sign of the two tilt texts is written " deg".
getPitchGuidance(positionIndex) ==
    LET pos == PosAt(positionIndex)
    IN  IF pos = null THEN ""
        ELSE CASE pos[1].ring = "zenith"  -> "Straight up"
               [] pos[1].ring = "upper"   -> "Tilt up ~55 deg"
               [] pos[1].ring = "equator" -> "Level"
               [] pos[1].ring = "lower"   -> "Tilt down ~55 deg"
               [] pos[1].ring = "nadir"   -> "Straight down"

-----------------------------------------------------------------------------
(* Orientation hook: useDeviceOrientation, handleOrientation                *)

\* Math.round of an angle given in half degrees: floor(x + 0.5), in degrees.
MathRound(halfDegrees) == (halfDegrees + 1) \div 2

Max(a, b) == IF a >= b THEN a ELSE b

Min(a, b) == IF a <= b THEN a ELSE b

\* The heading branch of handleOrientation: webkitCompassHeading if the event
\* has one, else (360 - alpha) % 360, else null. Half degrees.
newHeadingOf(event) ==
    IF event.webkitCompassHeading # null
    THEN event.webkitCompassHeading
    ELSE IF event.alpha # null
    THEN Some(JsMod(720 - event.alpha[1], 720))
    ELSE null

\* The pitch branch of handleOrientation, clamped to -90 .. 90. Half degrees.
newPitchOf(event) ==
    IF event.beta = null
    THEN null
    ELSE LET beta == event.beta[1]
             raw == IF event.gamma # null /\ Abs(event.gamma[1]) > 180
                    THEN (IF beta > 0 THEN 360 - beta ELSE 0 - 360 - beta)
                    ELSE 180 - beta
         IN  Some(Max(0 - 180, Min(180, raw)))

\* The debounce test with >= 2 in the place of > 2.
Propagates_AtLeast(sample, prev) ==
    sample # null /\ (prev = null \/ Abs(sample[1] - prev[1]) >= 4)

\* prev === null || Math.abs(value - prev) > 2, for a sample that is there.
Propagates(sample, prev) ==
    sample # null /\ (prev = null \/ Abs(sample[1] - prev[1]) > 4)

-----------------------------------------------------------------------------
(* Capture page: CapturePage                                                *)

\* new Set(capturedMap.keys())
capturedSetOf(map) == DOMAIN map

\* isComplete with > in the place of >=.
isCompleteOf_Beyond(map) == Cardinality(DOMAIN map) > TOTAL_POSITIONS

\* capturedCount >= TOTAL_POSITIONS
isCompleteOf(map) == Cardinality(capturedSetOf(map)) >= TOTAL_POSITIONS

\* value ?? 0
OrZero(v) == IF v = null THEN 0 ELSE v[1]

\* The activeIndex useMemo with the captured set left out of the selection.
activeIndexOf_IgnoreCaptured(map, h, p, startHeading) ==
    IF isCompleteOf(map)
    THEN null
    ELSE getNextUncaptured({}, OrZero(h), OrZero(p), OrZero(startHeading))

\* The body of the activeIndex useMemo.
activeIndexOf(map, h, p, startHeading) ==
    IF isCompleteOf(map)
    THEN null
    ELSE getNextUncaptured(capturedSetOf(map), OrZero(h), OrZero(p),
                           OrZero(startHeading))

\* The body of the alignment useMemo.
alignmentOf(h, p, active, startHeading) ==
    IF active = null \/ h = null \/ p = null \/ startHeading = null
    THEN [aligned |-> FALSE, headingAligned |-> FALSE, pitchAligned |-> FALSE,
          headingDelta |-> 999, pitchDelta |-> 999]
    ELSE isAlignedWithPosition(h[1], p[1], active[1], startHeading[1], <<>>)

\* The render that follows a handler. A useMemo value is recomputed only when
\* one of its dependencies changed: [capturedSet, heading, pitch, isComplete]
\* for activeIndex (capturedSet is a new object whenever setCapturedMap ran),
\* [heading, pitch, activeIndex] for alignment. startHeadingRef is read by
\* both bodies and is a dependency of neither.
Render(mapReplaced) ==
    /\ activeIndex' =
          IF \/ mapReplaced
             \/ orientation'.heading # orientation.heading
             \/ orientation'.pitch # orientation.pitch
             \/ isCompleteOf(capturedMap') # isCompleteOf(capturedMap)
          THEN activeIndexOf(capturedMap', orientation'.heading,
                             orientation'.pitch, startHeadingRef')
          ELSE activeIndex
    /\ alignment' =
          IF \/ orientation'.heading # orientation.heading
             \/ orientation'.pitch # orientation.pitch
             \/ activeIndex' # activeIndex
          THEN alignmentOf(orientation'.heading, orientation'.pitch,
                           activeIndex', startHeadingRef')
          ELSE alignment

\* The page as first rendered, before any event.
Mounted ==
    /\ capturedMap = <<>>
    /\ startHeadingRef = null
    /\ isCapturing = FALSE
    /\ flashVisible = FALSE
    /\ isUploading = FALSE
    /\ upload = null
    /\ orientation = [heading |-> null, pitch |-> null, isTracking |-> FALSE]
    /\ lastHeading = null
    /\ lastPitch = null
    /\ activeIndex = activeIndexOf(<<>>, null, null, null)
    /\ alignment = alignmentOf(null, null, activeIndexOf(<<>>, null, null, null),
                               null)

\* The deviceorientation events the browser delivers (half degrees): iOS
\* events carry webkitCompassHeading, Android events alpha alone; a device
\* without sensors delivers nulls.
SensorEvent(compass, alpha, beta, gamma) ==
    [webkitCompassHeading |-> compass, alpha |-> alpha, beta |-> beta,
     gamma |-> gamma]

SensorEvents ==
    {SensorEvent(Some(0), Some(0), Some(180), Some(0)),
     SensorEvent(Some(4), Some(0), Some(176), Some(0)),
     SensorEvent(Some(90), Some(0), Some(70), Some(10)),
     SensorEvent(null, Some(320), Some(360), Some(0)),
     SensorEvent(Some(719), Some(0), Some(0), null),
     SensorEvent(null, Some(630), Some(240), Some(200)),
     SensorEvent(Some(180), null, Some(291), null),
     SensorEvent(Some(180), null, null, null),
     SensorEvent(null, null, Some(180), Some(0)),
     SensorEvent(null, null, null, null)}

HandleOrientation(event) ==
    LET newHeading == newHeadingOf(event)
        newPitch == newPitchOf(event)
    IN  /\ lastHeading' = IF Propagates(newHeading, lastHeading)
                          THEN newHeading
                          ELSE lastHeading
        /\ lastPitch' = IF Propagates(newPitch, lastPitch)
                        THEN newPitch
                        ELSE lastPitch
        /\ orientation' =
              [heading |-> IF Propagates(newHeading, lastHeading)
                           THEN Some(MathRound(newHeading[1]))
                           ELSE orientation.heading,
               pitch |-> IF Propagates(newPitch, lastPitch)
                         THEN Some(MathRound(newPitch[1]))
                         ELSE orientation.pitch,
               isTracking |-> TRUE]
        /\ UNCHANGED <<capturedMap, startHeadingRef, isCapturing, flashVisible,
                       isUploading, upload>>
        /\ Render(FALSE)
        /\ call' = [fn |-> "handleOrientation", event |-> event]
        /\ UNCHANGED ret

\* ensureStartHeading without the test of startHeadingRef.current.
ensureStartHeading_Overwrite(ref, h) == h

\* if (startHeadingRef.current === null && heading !== null)
\*   startHeadingRef.current = heading
ensureStartHeading(ref, h) == IF ref = null /\ h # null THEN h ELSE ref

\* next = new Map(prev); next.set(activeIndex, dataUrl)
MapSet(prev, key, value) ==
    [k \in DOMAIN prev \cup {key} |-> IF k = key THEN value ELSE prev[k]]

\* captureFrame() returns a JPEG data URL, or null when the video or the
\* canvas is not ready.
Frames == {null, Some("data:image/jpeg")}

\* The capture button is rendered while !isComplete. setIsCapturing(true) and
\* setIsCapturing(false) are batched in one handler run, so isCapturing is
\* false again at the render; setFlashVisible(true) stays until the timer.
HandleCapture(dataUrl) ==
    /\ call' = [fn |-> "handleCapture", dataUrl |-> dataUrl,
                returned |-> (isCompleteOf(capturedMap) \/ isCapturing
                              \/ activeIndex = null)]
    /\ UNCHANGED <<ret, orientation, lastHeading, lastPitch, isUploading,
                   upload>>
    /\ IF isCompleteOf(capturedMap) \/ isCapturing \/ activeIndex = null
       THEN UNCHANGED <<capturedMap, startHeadingRef, isCapturing,
                        flashVisible, activeIndex, alignment>>
       ELSE /\ startHeadingRef' = ensureStartHeading(startHeadingRef,
                                                  orientation.heading)
            /\ isCapturing' = FALSE
            /\ flashVisible' = TRUE
            /\ capturedMap' = IF dataUrl # null
                              THEN MapSet(capturedMap, activeIndex[1], dataUrl[1])
                              ELSE capturedMap
            /\ Render(dataUrl # null)

\* setTimeout(() => setFlashVisible(false), 150)
FlashTimeout ==
    /\ flashVisible
    /\ flashVisible' = FALSE
    /\ call' = [fn |-> "flashTimeout"]
    /\ UNCHANGED <<ret, capturedMap, startHeadingRef, isCapturing, isUploading,
                   upload, activeIndex, alignment, orientation, lastHeading,
                   lastPitch>>

\* The reset button is rendered while capturedCount > 0 && !isComplete.
HandleReset ==
    /\ Cardinality(capturedSetOf(capturedMap)) > 0
    /\ ~isCompleteOf(capturedMap)
    /\ capturedMap' = <<>>
    /\ startHeadingRef' = null
    /\ UNCHANGED <<ret, isCapturing, flashVisible, isUploading, upload,
                   orientation, lastHeading, lastPitch>>
    /\ Render(TRUE)
    /\ call' = [fn |-> "handleReset"]

\* The keys sorted with the comparator (a, b) => b[0] - a[0].
RECURSIVE sortedKeys_Descending(_)
sortedKeys_Descending(keys) ==
    IF keys = {}
    THEN <<>>
    ELSE LET first == CHOOSE k \in keys : \A other \in keys : k >= other
         IN  <<first>> \o sortedKeys_Descending(keys \ {first})

\* [...capturedMap.entries()].sort((a, b) => a[0] - b[0]), the keys of it.
RECURSIVE sortedKeys(_)
sortedKeys(keys) ==
    IF keys = {}
    THEN <<>>
    ELSE LET first == CHOOSE k \in keys : \A other \in keys : k <= other
         IN  <<first>> \o sortedKeys(keys \ {first})

\* String(posIdx).padStart(2, "0")
padStart2(n) == IF n < 10 THEN "0" \o ToString(n) ELSE ToString(n)

\* formData.append("photos", blob, `photo_NN.jpg`), one per sorted entry.
photosOf(map) ==
    LET sortedEntries == sortedKeys(DOMAIN map)
    IN  [k \in 1 .. Len(sortedEntries) |->
            [filename |-> "photo_" \o padStart2(sortedEntries[k]) \o ".jpg",
             blob |-> map[sortedEntries[k]]]]

\* positionMeta, one record per sorted entry.
positionMetaOf(map, startHeading) ==
    LET sortedEntries == sortedKeys(DOMAIN map)
    IN  [k \in 1 .. Len(sortedEntries) |->
            LET posIdx == sortedEntries[k]
                pos == PosAt(posIdx)[1]
            IN  [index |-> posIdx,
                 heading |-> JsMod(OrZero(startHeading) + pos.heading, 360),
                 pitch |-> pos.pitch,
                 ring |-> pos.ring]]

\* The done button is rendered while isComplete and is disabled while
\* isUploading. The form data is what the handler posts to /api/upload.
HandleDone ==
    /\ isCompleteOf(capturedMap)
    /\ ~isUploading
    /\ isUploading' = TRUE
    /\ upload' = Some([photos |-> photosOf(capturedMap),
                       positions |-> positionMetaOf(capturedMap,
                                                    startHeadingRef)])
    /\ call' = [fn |-> "handleDone"]
    /\ UNCHANGED <<ret, capturedMap, startHeadingRef, isCapturing, flashVisible,
                   activeIndex, alignment, orientation, lastHeading, lastPitch>>

\* The response of POST /api/upload (api/upload/route.ts) to a request of an
\* authenticated or anonymous user with the files of the form's "photos"
\* field; dbOk and storageOk say whether the session insert and the storage
\* uploads succeed.
Response(status, error) == [status |-> status, error |-> error]

POST(user, files, dbOk, storageOk) ==
    IF ~user
    THEN Response(401, "Unauthorized")
    ELSE IF Len(files) < 2 \/ Len(files) > 20
    THEN Response(400, "Expected 2-20 photos, got " \o ToString(Len(files)))
    ELSE IF ~dbOk
    THEN Response(500, "Failed to create session")
    ELSE IF ~storageOk
    THEN Response(500, "Upload failed")
    ELSE Response(200, "")

\* The catch branch of handleDone: the upload request is answered with a
\* status that is not ok, or a later request (stitch, generate) fails;
\* setIsUploading(false). When every request succeeds the router leaves the
\* page.
UploadFailed ==
    /\ isUploading
    /\ \E user \in BOOLEAN, dbOk \in BOOLEAN, storageOk \in BOOLEAN,
          laterOk \in BOOLEAN :
           LET uploadRes == POST(user, upload[1].photos, dbOk, storageOk)
           IN  /\ uploadRes.status # 200 \/ ~laterOk
               /\ call' = [fn |-> "handleDone.catch", user |-> user,
                           uploadRes |-> uploadRes]
    /\ isUploading' = FALSE
    /\ UNCHANGED <<ret, capturedMap, startHeadingRef, isCapturing, flashVisible,
                   upload, activeIndex, alignment, orientation, lastHeading,
                   lastPitch>>

-----------------------------------------------------------------------------
(* Capture grid overlay: proj (capture-grid.tsx)                            *)
(* Angles of the overlay are integers in half degrees (145 is 72.5 degrees).*)
(* Math.sin and Math.cos are fixed point with unit Scale, read from a table *)
(* of the first quadrant; screen coordinates are whole pixels.              *)

\* The fixed-point unit: Sin and Cos return Scale times the sine and cosine.
Scale == 1000

\* Scale * sin(k / 2 degrees), rounded, for k = 0 .. 180 (element k + 1).
SinTable ==
    <<
      0, 9, 17, 26, 35, 44, 52, 61, 70, 78, 87, 96,
      105, 113, 122, 131, 139, 148, 156, 165, 174, 182, 191, 199,
      208, 216, 225, 233, 242, 250, 259, 267, 276, 284, 292, 301,
      309, 317, 326, 334, 342, 350, 358, 367, 375, 383, 391, 399,
      407, 415, 423, 431, 438, 446, 454, 462, 469, 477, 485, 492,
      500, 508, 515, 522, 530, 537, 545, 552, 559, 566, 574, 581,
      588, 595, 602, 609, 616, 623, 629, 636, 643, 649, 656, 663,
      669, 676, 682, 688, 695, 701, 707, 713, 719, 725, 731, 737,
      743, 749, 755, 760, 766, 772, 777, 783, 788, 793, 799, 804,
      809, 814, 819, 824, 829, 834, 839, 843, 848, 853, 857, 862,
      866, 870, 875, 879, 883, 887, 891, 895, 899, 903, 906, 910,
      914, 917, 921, 924, 927, 930, 934, 937, 940, 943, 946, 948,
      951, 954, 956, 959, 961, 964, 966, 968, 970, 972, 974, 976,
      978, 980, 982, 983, 985, 986, 988, 989, 990, 991, 993, 994,
      995, 995, 996, 997, 998, 998, 999, 999, 999, 1000, 1000, 1000,
      1000
    >>

\* Math.sin(a * DEG), a in half degrees.
Sin(a) ==
    LET m == a % 720
    IN  IF m <= 180 THEN SinTable[m + 1]
        ELSE IF m <= 360 THEN SinTable[360 - m + 1]
        ELSE IF m <= 540 THEN 0 - SinTable[m - 360 + 1]
        ELSE 0 - SinTable[720 - m + 1]

\* Math.cos(a * DEG), a in half degrees.
Cos(a) == Sin(a + 180)

\* zR <= 0.01, zR in units of Scale^3.
BehindThreshold == (Scale * Scale * Scale) \div 100

\* const HFOV = 70, in degrees.
HFOV == 70

\* proj without the start heading in relH.
proj_NoStart(gridH, gridP, camH, camP, startH, f, cx, cy) ==
    LET relH == gridH - camH
        x == Cos(gridP) * Sin(relH)
        y == Sin(gridP)
        z == Cos(gridP) * Cos(relH)
        yR == y * Cos(camP) * Scale - z * Sin(camP)
        zR == y * Sin(camP) * Scale + z * Cos(camP)
    IN  IF zR <= BehindThreshold
        THEN [x |-> 0, y |-> 0, behind |-> TRUE]
        ELSE [x |-> cx + (f * x) \div (zR \div Scale),
              y |-> cy - (f * (yR \div Scale)) \div (zR \div Scale),
              behind |-> FALSE]

\* proj with the rotation about the X axis taken with the grid pitch only:
\* the camera pitch is left out of zR.
proj_NoPitchRotation(gridH, gridP, camH, camP, startH, f, cx, cy) ==
    LET relH == startH + gridH - camH
        x == Cos(gridP) * Sin(relH)
        y == Sin(gridP)
        z == Cos(gridP) * Cos(relH)
        yR == y * Cos(camP) * Scale - z * Sin(camP)
        zR == z * Scale
    IN  IF zR <= BehindThreshold
        THEN [x |-> 0, y |-> 0, behind |-> TRUE]
        ELSE [x |-> cx + (f * x) \div (zR \div Scale),
              y |-> cy - (f * (yR \div Scale)) \div (zR \div Scale),
              behind |-> FALSE]

\* x, y, z: the point on the unit sphere (Y up, Z forward, X right), x and z
\* in units of Scale^2, y of Scale; yR, zR: rotated by the camera pitch about
\* the X axis, in units of Scale^3.
proj(gridH, gridP, camH, camP, startH, f, cx, cy) ==
    LET relH == startH + gridH - camH
        x == Cos(gridP) * Sin(relH)
        y == Sin(gridP)
        z == Cos(gridP) * Cos(relH)
        yR == y * Cos(camP) * Scale - z * Sin(camP)
        zR == y * Sin(camP) * Scale + z * Cos(camP)
    IN  IF zR <= BehindThreshold
        THEN [x |-> 0, y |-> 0, behind |-> TRUE]
        ELSE [x |-> cx + (f * x) \div (zR \div Scale),
              y |-> cy - (f * (yR \div Scale)) \div (zR \div Scale),
              behind |-> FALSE]

-----------------------------------------------------------------------------
(* Capture grid overlay: CELLS and the drawing helpers                      *)

\* const RING_PITCHES = [72.5, 27.5, -27.5, -72.5]
RING_PITCHES == <<145, 55, 0 - 55, 0 - 145>>

CellDef(posIndex, pTop, pBot, hStart, hEnd, isCap) ==
    [posIndex |-> posIndex, pTop |-> pTop, pBot |-> pBot, hStart |-> hStart,
     hEnd |-> hEnd, isCap |-> isCap]

\* The zenith cap, 6 upper cells of 60 degrees, 8 equator cells of 45, 6 lower
\* cells of 60 offset by 30, the nadir cap.
CELLS ==
    <<CellDef(0, 180, 145, 0, 720, TRUE)>>
    \o [i \in 1 .. 6 |-> CellDef(i, 145, 55, (i - 1) * 120, i * 120, FALSE)]
    \o [i \in 1 .. 8 |->
           CellDef(6 + i, 55, 0 - 55, (i - 1) * 90, i * 90, FALSE)]
    \o [i \in 1 .. 6 |->
           CellDef(14 + i, 0 - 55, 0 - 145, (i - 1) * 120 + 60, i * 120 + 60,
                   FALSE)]
    \o <<CellDef(21, 0 - 145, 0 - 180, 0, 720, TRUE)>>

\* The closure p of draw: proj at the camera of the frame.
PFn(view, h, pitch) ==
    proj(h, pitch, view.camH, view.camP, view.startH, view.f, view.cx, view.cy)

\* for (let v = from; v <= to; v += step), the values of v.
StepsUp(from, to, step) ==
    IF from > to THEN <<>>
    ELSE [k \in 1 .. (to - from) \div step + 1 |-> from + (k - 1) * step]

\* for (let v = from; v >= to; v -= step), the values of v.
StepsDown(from, to, step) ==
    IF from < to THEN <<>>
    ELSE [k \in 1 .. (from - to) \div step + 1 |-> from - (k - 1) * step]

\* The sampling step S = 4 degrees of cellPoints.
CellStep == 8

\* The sampling step of addRing and addVert, 2 degrees.
LineStep == 4

\* The points cellPoints projects, in the order of its loops, as <<h, pitch>>.
cellSamples(cell) ==
    IF cell.isCap
    THEN LET ringP == IF cell.pBot > 0 THEN cell.pBot ELSE cell.pTop
             ring == StepsUp(0, 719, CellStep)
         IN  [k \in 1 .. Len(ring) |-> <<ring[k], ringP>>]
             \o <<<<0, IF cell.pBot > 0 THEN 180 ELSE 0 - 180>>>>
    ELSE LET top == StepsUp(cell.hStart, cell.hEnd, CellStep)
             right == StepsDown(cell.pTop - CellStep, cell.pBot, CellStep)
             bottom == StepsDown(cell.hEnd, cell.hStart, CellStep)
             left == StepsUp(cell.pBot + CellStep, cell.pTop - 1, CellStep)
         IN  [k \in 1 .. Len(top) |-> <<top[k], cell.pTop>>]
             \o [k \in 1 .. Len(right) |-> <<cell.hEnd, right[k]>>]
             \o [k \in 1 .. Len(bottom) |-> <<bottom[k], cell.pBot>>]
             \o [k \in 1 .. Len(left) |-> <<cell.hStart, left[k]>>]

\* if (!pt.behind) pts.push(pt), over the samples from k on.
RECURSIVE PushVisible(_, _, _)
PushVisible(view, samples, k) ==
    IF k > Len(samples)
    THEN <<>>
    ELSE LET pt == PFn(view, samples[k][1], samples[k][2])
         IN  (IF ~pt.behind THEN <<pt>> ELSE <<>>)
             \o PushVisible(view, samples, k + 1)

cellPoints(cell, view) == PushVisible(view, cellSamples(cell), 1)

\* A call on the canvas context.
CtxCall(op, x, y) == [op |-> op, x |-> x, y |-> y]

\* The loop body of addRing and addVert without the reset of drawing at a
\* behind sample.
RECURSIVE PathLoop_NoBreak(_, _, _, _)
PathLoop_NoBreak(view, samples, k, drawing) ==
    IF k > Len(samples)
    THEN <<>>
    ELSE LET pt == PFn(view, samples[k][1], samples[k][2])
         IN  IF ~pt.behind
             THEN <<CtxCall(IF drawing THEN "lineTo" ELSE "moveTo", pt.x, pt.y)>>
                  \o PathLoop_NoBreak(view, samples, k + 1, TRUE)
             ELSE PathLoop_NoBreak(view, samples, k + 1, drawing)

\* The loop body shared by addRing and addVert: lineTo while drawing, moveTo
\* to start, drawing = false at a behind sample. The calls made on ctx.
RECURSIVE PathLoop(_, _, _, _)
PathLoop(view, samples, k, drawing) ==
    IF k > Len(samples)
    THEN <<>>
    ELSE LET pt == PFn(view, samples[k][1], samples[k][2])
         IN  IF ~pt.behind
             THEN <<CtxCall(IF drawing THEN "lineTo" ELSE "moveTo", pt.x, pt.y)>>
                  \o PathLoop(view, samples, k + 1, TRUE)
             ELSE PathLoop(view, samples, k + 1, FALSE)

\* for (let h = 0; h <= 360; h += 2) p(h, pitch)
ringSamples(pitch) ==
    LET hs == StepsUp(0, 720, LineStep)
    IN  [k \in 1 .. Len(hs) |-> <<hs[k], pitch>>]

\* for (let pitch = pTop; pitch >= pBot; pitch -= 2) p(heading, pitch)
vertSamples(h, pTop, pBot) ==
    LET ps == StepsDown(pTop, pBot, LineStep)
    IN  [k \in 1 .. Len(ps) |-> <<h, ps[k]>>]

addRing(pitch, view) == PathLoop(view, ringSamples(pitch), 1, FALSE)

addVert(h, pTop, pBot, view) ==
    PathLoop(view, vertSamples(h, pTop, pBot), 1, FALSE)

\* The calls drawLabel makes on ctx that take coordinates: a checkmark for a
\* captured cell, a reticle (circle, four ticks, dot) for the active cell, a
\* dot otherwise. pulse is 0 or 1, the ends of its range.
drawLabel(cell, captured, active, view, pulse) ==
    LET pos == PosAt(cell.posIndex)[1]
        pt == PFn(view, 2 * pos.heading, 2 * pos.pitch)
        r == 12 + pulse * 3
        tk == 4
        Arc(x, y, radius) == [op |-> "arc", x |-> x, y |-> y, r |-> radius]
    IN  IF pt.behind
        THEN <<>>
        ELSE IF captured
        THEN <<CtxCall("moveTo", pt.x - 5, pt.y),
               CtxCall("lineTo", pt.x - 1, pt.y + 4),
               CtxCall("lineTo", pt.x + 6, pt.y - 4)>>
        ELSE IF active
        THEN <<Arc(pt.x, pt.y, r),
               CtxCall("moveTo", pt.x - r - tk, pt.y),
               CtxCall("lineTo", pt.x - r + tk, pt.y),
               CtxCall("moveTo", pt.x + r - tk, pt.y),
               CtxCall("lineTo", pt.x + r + tk, pt.y),
               CtxCall("moveTo", pt.x, pt.y - r - tk),
               CtxCall("lineTo", pt.x, pt.y - r + tk),
               CtxCall("moveTo", pt.x, pt.y + r - tk),
               CtxCall("lineTo", pt.x, pt.y + r + tk),
               Arc(pt.x, pt.y, 2)>>
        ELSE <<Arc(pt.x, pt.y, 2)>>

-----------------------------------------------------------------------------
(* Globe minimap: SphereGuide, projectPosition (sphere-guide.tsx)           *)
(* Angles of the minimap are integer degrees; the coordinates of the point  *)
(* on the unit sphere are fixed point with unit Scale^2 after each          *)
(* rotation, screen coordinates are whole pixels.                           *)

\* Math.sin and Math.cos of an angle in degrees.
SinDeg(a) == Sin(2 * a)

CosDeg(a) == Cos(2 * a)

\* rotYaw and rotPitch are given in degrees. x, y, z in units of Scale^2.
projectPosition(pos, rotYaw, rotPitch, R, cx, cy, startHeading) ==
    LET posHeading == startHeading + pos.heading
        x0 == CosDeg(pos.pitch) * SinDeg(posHeading)
        y0 == SinDeg(pos.pitch) * Scale
        z0 == CosDeg(pos.pitch) * CosDeg(posHeading)
        cosY == CosDeg(rotYaw)
        sinY == SinDeg(rotYaw)
        x1 == (x0 * cosY - z0 * sinY) \div Scale
        z1 == (x0 * sinY + z0 * cosY) \div Scale
        cosP == CosDeg(rotPitch)
        sinP == SinDeg(rotPitch)
        y1 == (y0 * cosP - z1 * sinP) \div Scale
        z2 == (y0 * sinP + z1 * cosP) \div Scale
    IN  [x |-> cx + (x1 * R) \div (Scale * Scale),
         y |-> cy - (y1 * R) \div (Scale * Scale),
         z |-> z2,
         pos |-> pos]

\* if (p.z < -0.1) continue, z in units of Scale^2.
CullDepth == 0 - (Scale * Scale) \div 10

\* The part of draw that concerns one catalog position: the globe's center
\* and radius, the two rotations, the projected dot and whether the loop
\* draws it.
drawDot(pos, currentHeading, currentPitch, startHeading, size) ==
    LET cx == size \div 2
        cy == size \div 2
        R == size \div 2 - 12
        rotYaw == 0 - currentHeading + startHeading
        rotPitch == 0 - currentPitch
        dot == projectPosition(pos, rotYaw, rotPitch, R, cx, cy, startHeading)
    IN  [dot |-> dot, cx |-> cx, cy |-> cy, drawn |-> ~(dot.z < CullDepth)]

-----------------------------------------------------------------------------
(* Arguments the exported functions are called with                         *)

\* How far outside 0 .. 21 a position index argument may lie.
IndexSlack == 1

\* How many single indices a captured set holds besides its complete rings.
MaxExtra == 1

IndexArgs == (0 - IndexSlack) .. (Len(CAPTURE_POSITIONS) - 1 + IndexSlack)

\* Device headings: every catalog heading, the wrap-around neighbourhood of
\* 0 / 360 and the two sides of the 15-degree tolerance.
Headings == {15 * k : k \in 0 .. 24} \cup {10, 16, 344, 350}

Pitches == {0 - 90, 0 - 75, 0 - 74, 0 - 55, 0 - 40, 0, 15, 16, 55, 90}

StartHeadings == {0, 10, 350}

\* The optional tolerance arguments: none, heading only, both.
OptArgs == {<<>>, <<20>>, <<10, 5>>}

\* Orientations the selector is called with (30: midway between two upper
\* positions; -90: the device points straight down).
SelHeadings == {0, 30, 200, 350}

SelPitches == {0, 40, 0 - 90}

SelStartHeadings == {0, 350}

RingMembers(ring) ==
    {CAPTURE_POSITIONS[k].index : k \in {n \in 1 .. Len(CAPTURE_POSITIONS) :
                                            CAPTURE_POSITIONS[n].ring = ring}}

RECURSIVE SubsetsUpTo(_, _)
SubsetsUpTo(S, n) ==
    IF n = 0
    THEN {{}}
    ELSE LET prev == SubsetsUpTo(S, n - 1)
         IN  prev \cup {p \cup {x} : p \in prev, x \in S}

\* Captured sets: any number of complete rings plus at most MaxExtra further
\* indices (Set<number> accepts any number, also one outside the catalog).
CapturedSets ==
    {UNION {RingMembers(r) : r \in rings} \cup extra :
        rings \in SUBSET RingName, extra \in SubsetsUpTo(IndexArgs, MaxExtra)}

-----------------------------------------------------------------------------
(* The module after load, and one action per exported function. The         *)
(* functions are pure and the tables they read are never written after load, *)
(* so a call's result depends on its arguments alone: a behaviour is the     *)
(* load followed by one call.                                                *)

Loaded == call.fn = "load"

Init ==
    /\ call = [fn |-> "load"]
    /\ ret = null
    /\ Mounted

CallIsAlignedWithPosition ==
    /\ Loaded
    /\ \E heading \in Headings, pitch \in Pitches, positionIndex \in IndexArgs,
          startHeading \in StartHeadings, opt \in OptArgs :
           /\ call' = [fn |-> "isAlignedWithPosition", heading |-> heading,
                       pitch |-> pitch, positionIndex |-> positionIndex,
                       startHeading |-> startHeading, opt |-> opt]
           /\ ret' = isAlignedWithPosition(heading, pitch, positionIndex,
                                           startHeading, opt)
    /\ UNCHANGED session

CallGetNextUncaptured ==
    /\ Loaded
    /\ \E capturedSet \in CapturedSets, currentHeading \in SelHeadings,
          currentPitch \in SelPitches, startHeading \in SelStartHeadings :
           /\ call' = [fn |-> "getNextUncaptured", capturedSet |-> capturedSet,
                       currentHeading |-> currentHeading,
                       currentPitch |-> currentPitch,
                       startHeading |-> startHeading]
           /\ ret' = getNextUncaptured(capturedSet, currentHeading, currentPitch,
                                       startHeading)
    /\ UNCHANGED session

CallGetAdjacentPositions ==
    /\ Loaded
    /\ \E positionIndex \in IndexArgs :
           /\ call' = [fn |-> "getAdjacentPositions", positionIndex |-> positionIndex]
           /\ ret' = getAdjacentPositions(positionIndex)
    /\ UNCHANGED session

CallGetRingProgress ==
    /\ Loaded
    /\ \E capturedSet \in CapturedSets :
           /\ call' = [fn |-> "getRingProgress", capturedSet |-> capturedSet]
           /\ ret' = getRingProgress(capturedSet)
    /\ UNCHANGED session

CallGetDirectionLabel ==
    /\ Loaded
    /\ \E positionIndex \in IndexArgs :
           /\ call' = [fn |-> "getDirectionLabel", positionIndex |-> positionIndex]
           /\ ret' = getDirectionLabel(positionIndex)
    /\ UNCHANGED session

CallGetPitchGuidance ==
    /\ Loaded
    /\ \E positionIndex \in IndexArgs :
           /\ call' = [fn |-> "getPitchGuidance", positionIndex |-> positionIndex]
           /\ ret' = getPitchGuidance(positionIndex)
    /\ UNCHANGED session

Next ==
    \/ CallIsAlignedWithPosition
    \/ CallGetNextUncaptured
    \/ CallGetAdjacentPositions
    \/ CallGetRingProgress
    \/ CallGetDirectionLabel
    \/ CallGetPitchGuidance

Spec == Init /\ [][Next]_vars

\* The capture session: the page and its orientation hook.
SessionNext ==
    \/ \E event \in SensorEvents : HandleOrientation(event)
    \/ \E dataUrl \in Frames : HandleCapture(dataUrl)
    \/ FlashTimeout
    \/ HandleReset
    \/ HandleDone
    \/ UploadFailed

SessionSpec == Init /\ [][SessionNext]_vars

\* Arguments of proj, in half degrees: grid headings and pitches of the
\* catalog and of the cell borders, camera orientations, start headings.
GridHeadings == {0, 90, 180, 240, 660}

GridPitches == {0 - 180, 0 - 145, 0 - 110, 0, 55, 110, 145, 180}

CamHeadings == {0, 90, 180, 330, 400, 720}

CamPitches == {0 - 180, 0 - 110, 0, 1, 30, 110, 180}

GridStartHeadings == {0, 90, 700}

\* cx = w / 2, cy = h / 2 and f = (w / 2) / tan(HFOV / 2), f rounded, for a
\* canvas of w by h pixels.
ScreenOf(w, h) ==
    [cx |-> w \div 2,
     cy |-> h \div 2,
     f |-> ((w \div 2) * Cos(HFOV) + Sin(HFOV) \div 2) \div Sin(HFOV)]

Screens == {ScreenOf(390, 844), ScreenOf(800, 600)}

CallProj ==
    /\ Loaded
    /\ \E gridH \in GridHeadings, gridP \in GridPitches, camH \in CamHeadings,
          camP \in CamPitches, startH \in GridStartHeadings, screen \in Screens :
           /\ call' = [fn |-> "proj", gridH |-> gridH, gridP |-> gridP,
                       camH |-> camH, camP |-> camP, startH |-> startH,
                       f |-> screen.f, cx |-> screen.cx, cy |-> screen.cy]
           /\ ret' = proj(gridH, gridP, camH, camP, startH, screen.f, screen.cx,
                          screen.cy)
    /\ UNCHANGED session

\* The cameras of a frame: props cameraHeading, cameraPitch, startHeading
\* (in half degrees) and the canvas.
Views ==
    {[camH |-> camH, camP |-> camP, startH |-> startH, f |-> screen.f,
      cx |-> screen.cx, cy |-> screen.cy] :
        camH \in {0, 90, 400}, camP \in {0 - 180, 0 - 110, 0, 30, 110, 180},
        startH \in {0, 700}, screen \in {ScreenOf(390, 844)}}

CallCellPoints ==
    /\ Loaded
    /\ \E k \in 1 .. Len(CELLS), view \in Views :
           /\ call' = [fn |-> "cellPoints", cell |-> CELLS[k], view |-> view]
           /\ ret' = cellPoints(CELLS[k], view)
    /\ UNCHANGED session

CallAddRing ==
    /\ Loaded
    /\ \E k \in 1 .. Len(RING_PITCHES), view \in Views :
           /\ call' = [fn |-> "addRing", pitch |-> RING_PITCHES[k],
                       view |-> view]
           /\ ret' = addRing(RING_PITCHES[k], view)
    /\ UNCHANGED session

\* The three loops of draw over the vertical borders of the bands.
VertLines ==
    {[heading |-> i * 120, pTop |-> 145, pBot |-> 55] : i \in 0 .. 5}
    \cup {[heading |-> i * 90, pTop |-> 55, pBot |-> 0 - 55] : i \in 0 .. 7}
    \cup {[heading |-> i * 120 + 60, pTop |-> 0 - 55, pBot |-> 0 - 145] :
             i \in 0 .. 5}

CallAddVert ==
    /\ Loaded
    /\ \E line \in VertLines, view \in Views :
           /\ call' = [fn |-> "addVert", heading |-> line.heading,
                       pTop |-> line.pTop, pBot |-> line.pBot, view |-> view]
           /\ ret' = addVert(line.heading, line.pTop, line.pBot, view)
    /\ UNCHANGED session

CallDrawLabel ==
    /\ Loaded
    /\ \E k \in 1 .. Len(CELLS), captured \in BOOLEAN, active \in BOOLEAN,
          view \in Views, pulse \in {0, 1} :
           /\ call' = [fn |-> "drawLabel", cell |-> CELLS[k],
                       captured |-> captured, active |-> active,
                       view |-> view, pulse |-> pulse]
           /\ ret' = drawLabel(CELLS[k], captured, active, view, pulse)
    /\ UNCHANGED session

\* The props of the minimap as the page passes them: heading ?? 0, pitch ?? 0,
\* startHeadingRef.current ?? 0 and size = 110.
CallDrawDot ==
    /\ Loaded
    /\ \E index \in 0 .. TOTAL_POSITIONS - 1,
          currentHeading \in {0, 45, 90, 200, 360},
          currentPitch \in {0 - 90, 0 - 55, 0, 55, 90},
          startHeading \in {0, 45, 200} :
           /\ call' = [fn |-> "SphereGuide.draw", index |-> index,
                       currentHeading |-> currentHeading,
                       currentPitch |-> currentPitch,
                       startHeading |-> startHeading, size |-> 110]
           /\ ret' = drawDot(PosAt(index)[1], currentHeading, currentPitch,
                             startHeading, 110)
    /\ UNCHANGED session

GridNext ==
    \/ CallProj
    \/ CallDrawDot
    \/ CallCellPoints
    \/ CallAddRing
    \/ CallAddVert
    \/ CallDrawLabel

\* The overlay: the projection and the drawing helpers, each called once.
GridSpec == Init /\ [][GridNext]_vars

-----------------------------------------------------------------------------
(* The documented layout, written from the specification's text, against    *)
(* which the tables built above are compared                                *)

DocIndices == 0 .. 21

DocRing(i) ==
    CASE i = 0               -> "zenith"
      [] i \in 1 .. 6        -> "upper"
      [] i \in 7 .. 14       -> "equator"
      [] i \in 15 .. 20      -> "lower"
      [] i = 21              -> "nadir"
      [] OTHER               -> "outside"

DocPitch(i) ==
    CASE DocRing(i) = "zenith"  -> 90
      [] DocRing(i) = "upper"   -> 55
      [] DocRing(i) = "equator" -> 0
      [] DocRing(i) = "lower"   -> 0 - 55
      [] DocRing(i) = "nadir"   -> 0 - 90

DocHeading(i) ==
    CASE DocRing(i) = "zenith"  -> 0
      [] DocRing(i) = "upper"   -> (i - 1) * 60
      [] DocRing(i) = "equator" -> (i - 7) * 45
      [] DocRing(i) = "lower"   -> (i - 15) * 60 + 30
      [] DocRing(i) = "nadir"   -> 0

DocRingSize ==
    [zenith |-> 1, upper |-> 6, equator |-> 8, lower |-> 6, nadir |-> 1]

\* The smallest angle between two headings, in 0 .. 180.
SmallestAngle(a, b) ==
    LET d == (a - b) % 360
    IN  IF d <= 180 THEN d ELSE 360 - d

DocPriority == <<"equator", "upper", "lower", "zenith", "nadir">>

\* The uncaptured catalog indices of a ring.
DocFree(ring, capturedSet) ==
    {i \in DocIndices : DocRing(i) = ring /\ i \notin capturedSet}

\* Twice the weighted distance of the selector: headingDelta + 1.5 * pitchDelta.
DocDist2(i, heading, pitch, start) ==
    2 * SmallestAngle(heading, (start + DocHeading(i)) % 360)
    + 3 * Abs(pitch - DocPitch(i))

SeqRange(q) == {q[k] : k \in 1 .. Len(q)}

-----------------------------------------------------------------------------
\* C1: the catalog has exactly 22 entries, the entry of slot i has index i,
\* and ring, pitch and heading follow the documented layout (zenith 0, upper
\* 1..6 at (i-1)*60, equator 7..14 at (i-7)*45, lower 15..20 at (i-15)*60+30,
\* nadir 21); RING_INFO counts and TOTAL_POSITIONS agree with the ring sizes.
\* Stated of the table as loaded and of every slot a guidance lookup reads.
C1_CatalogLayout ==
    /\ Loaded =>
          /\ Len(CAPTURE_POSITIONS) = 22
          /\ TOTAL_POSITIONS = 22
          /\ \A i \in DocIndices :
                LET e == CAPTURE_POSITIONS[i + 1]
                IN  /\ e.index = i
                    /\ e.ring = DocRing(i)
                    /\ e.pitch = DocPitch(i)
                    /\ e.heading = DocHeading(i)
          /\ \A r \in RingName :
                /\ RING_INFO[r].count = DocRingSize[r]
                /\ RING_INFO[r].count =
                      Cardinality({k \in 1 .. Len(CAPTURE_POSITIONS) :
                                      CAPTURE_POSITIONS[k].ring = r})
    /\ (call.fn \in {"getDirectionLabel", "getPitchGuidance"}
        /\ call.positionIndex \in DocIndices) =>
          LET e == PosAt(call.positionIndex)
          IN  /\ e # null
              /\ e[1].index = call.positionIndex
              /\ e[1].ring = DocRing(call.positionIndex)
              /\ e[1].pitch = DocPitch(call.positionIndex)
              /\ e[1].heading = DocHeading(call.positionIndex)

\* Slot 15, the first position of the lower ring, has been read from the catalog.
C1_Witness ==
    /\ call.fn = "getDirectionLabel"
    /\ call.positionIndex = 15
    /\ ret = "Look down Lower 1/6"

\* C2: for a captured set that leaves some catalog index free, the selector
\* returns an index of the first ring, in the order equator, upper, lower,
\* zenith, nadir, that still has a free position, wherever the device points.
C2_RingPriority ==
    (call.fn = "getNextUncaptured" /\ ~(DocIndices \subseteq call.capturedSet))
    => /\ ret # null
       /\ \E k \in 1 .. Len(DocPriority) :
             /\ DocRing(ret[1]) = DocPriority[k]
             /\ DocFree(DocPriority[k], call.capturedSet) # {}
             /\ \A m \in 1 .. (k - 1) :
                   DocFree(DocPriority[m], call.capturedSet) = {}

\* The equator is complete, an upper position is free, the device points
\* straight down, and an upper index is returned.
C2_Witness ==
    /\ call.fn = "getNextUncaptured"
    /\ (7 .. 14) \subseteq call.capturedSet
    /\ DocFree("upper", call.capturedSet) # {}
    /\ DocFree("lower", call.capturedSet) # {}
    /\ call.currentPitch = 0 - 90
    /\ ret # null
    /\ ret[1] \in 1 .. 6

\* C3: the returned index minimizes headingDelta + 1.5 * pitchDelta among the
\* free positions of its ring, the lowest index winning a tie; with nothing
\* captured, start heading 0, heading 0 and pitch 0 the result is 7.
C3_NearestInRing ==
    (call.fn = "getNextUncaptured" /\ ret # null)
    => /\ ret[1] \in DocIndices
       /\ \A j \in DocFree(DocRing(ret[1]), call.capturedSet) :
             LET di == DocDist2(ret[1], call.currentHeading, call.currentPitch,
                                call.startHeading)
                 dj == DocDist2(j, call.currentHeading, call.currentPitch,
                                call.startHeading)
             IN  /\ di <= dj
                 /\ (di = dj => ret[1] <= j)
       /\ (/\ call.capturedSet \cap DocIndices = {}
           /\ call.startHeading = 0
           /\ call.currentHeading = 0
           /\ call.currentPitch = 0) => ret = Some(7)

\* Index 7 is captured and the device faces its heading: 8 (at 45) and 14
\* (at 315) are equally near, and 8 is returned.
C3_Witness ==
    /\ call.fn = "getNextUncaptured"
    /\ call.capturedSet = {7}
    /\ call.currentHeading = 0
    /\ call.startHeading = 0
    /\ call.currentPitch = 0
    /\ ret = Some(8)

\* C4: the selector returns null exactly when every index 0..21 is captured,
\* and an index it returns is in 0..21 and not captured.
C4_NullIffComplete ==
    call.fn = "getNextUncaptured"
    => /\ (ret = null) <=> (DocIndices \subseteq call.capturedSet)
       /\ ret # null => (ret[1] \in DocIndices /\ ret[1] \notin call.capturedSet)

\* Everything is captured and null is returned.
C4_Witness ==
    /\ call.fn = "getNextUncaptured"
    /\ DocIndices \subseteq call.capturedSet
    /\ ret = null

\* C5: for a non-polar target (1..20) the evaluator reports pitchDelta =
\* |pitch - target.pitch|, headingDelta = the smallest angle (0..180) between
\* the heading and (startHeading + target.heading) mod 360, each aligned flag
\* as delta <= tolerance (inclusive, 15 when the argument is omitted), and
\* aligned as their conjunction.
C5_NonPolarAlignment ==
    (call.fn = "isAlignedWithPosition" /\ call.positionIndex \in 1 .. 20)
    => LET i == call.positionIndex
           hTol == IF Len(call.opt) >= 1 THEN call.opt[1] ELSE 15
           pTol == IF Len(call.opt) >= 2 THEN call.opt[2] ELSE 15
           hDelta == SmallestAngle(call.heading,
                                   (call.startHeading + DocHeading(i)) % 360)
           pDelta == Abs(call.pitch - DocPitch(i))
       IN  /\ ret.pitchDelta = pDelta
           /\ ret.headingDelta = hDelta
           /\ ret.headingDelta \in 0 .. 180
           /\ ret.headingAligned = (hDelta <= hTol)
           /\ ret.pitchAligned = (pDelta <= pTol)
           /\ ret.aligned = (ret.headingAligned /\ ret.pitchAligned)

\* Heading 350 against target heading 10 (index 7, start heading 10): the
\* reported delta is 20, and with the default tolerance that is not aligned,
\* while the pitch delta is exactly the tolerance and is aligned.
C5_Witness ==
    /\ call.fn = "isAlignedWithPosition"
    /\ call.positionIndex = 7
    /\ call.heading = 350
    /\ call.startHeading = 10
    /\ call.pitch = 15
    /\ call.opt = <<>>
    /\ ret.headingDelta = 20
    /\ ~ret.headingAligned
    /\ ret.pitchDelta = 15
    /\ ret.pitchAligned

\* C6: with start heading 0, a device at exactly the heading and pitch of
\* catalog position P is aligned with P, both deltas being 0.
C6_SelfAlignment ==
    (/\ call.fn = "isAlignedWithPosition"
     /\ call.positionIndex \in DocIndices
     /\ call.startHeading = 0
     /\ call.opt = <<>>
     /\ call.heading = CAPTURE_POSITIONS[call.positionIndex + 1].heading
     /\ call.pitch = CAPTURE_POSITIONS[call.positionIndex + 1].pitch)
    => /\ ret.aligned
       /\ ret.headingDelta = 0
       /\ ret.pitchDelta = 0

\* Self-alignment of index 16 (lower ring, heading 90, pitch -55).
C6_Witness ==
    /\ call.fn = "isAlignedWithPosition"
    /\ call.positionIndex = 16
    /\ call.startHeading = 0
    /\ call.opt = <<>>
    /\ call.heading = 90
    /\ call.pitch = 0 - 55
    /\ ret.aligned

\* C7: for the zenith (0) and the nadir (21) the result is the same for any
\* other heading and start heading at the same pitch, reports headingAligned
\* and headingDelta 0, and aligned = pitchAligned; at pitch 90 the zenith is
\* aligned for every heading and start heading.
C7_PolesIgnoreHeading ==
    (call.fn = "isAlignedWithPosition" /\ call.positionIndex \in {0, 21})
    => /\ \A h2 \in Headings, s2 \in StartHeadings :
             isAlignedWithPosition(h2, call.pitch, call.positionIndex, s2,
                                   call.opt) = ret
       /\ ret.headingAligned
       /\ ret.headingDelta = 0
       /\ ret.aligned = ret.pitchAligned
       /\ (call.positionIndex = 0 /\ call.pitch = 90) => ret.aligned

\* The nadir target with the device pointing straight down, heading 105 and
\* start heading 350: aligned although no heading matches.
C7_Witness ==
    /\ call.fn = "isAlignedWithPosition"
    /\ call.positionIndex = 21
    /\ call.heading = 105
    /\ call.startHeading = 350
    /\ call.pitch = 0 - 90
    /\ ret.aligned
    /\ ret.headingDelta = 0

\* C8: for a target index outside 0..21 the evaluator returns (and does not
\* throw) aligned, headingAligned, pitchAligned all false with both deltas
\* 999; getAdjacentPositions returns the empty list; getRingProgress counts
\* as if the index were not in the captured set.
C8_InvalidIndex ==
    /\ (call.fn = "isAlignedWithPosition" /\ call.positionIndex \notin DocIndices)
       => ret = [aligned |-> FALSE, headingAligned |-> FALSE,
                 pitchAligned |-> FALSE, headingDelta |-> 999,
                 pitchDelta |-> 999]
    /\ (call.fn = "getAdjacentPositions" /\ call.positionIndex \notin DocIndices)
       => ret = <<>>
    /\ call.fn = "getRingProgress"
       => ret = getRingProgress(call.capturedSet \cap DocIndices)

\* Index 22, one past the catalog, at an orientation that would align with a
\* real position: the sentinel comes back.
C8_Witness ==
    /\ call.fn = "isAlignedWithPosition"
    /\ call.positionIndex = 22
    /\ call.heading = 0
    /\ call.pitch = 0
    /\ ret.headingDelta = 999
    /\ ~ret.aligned

\* C9: every non-polar position has 3 to 6 neighbors, each pole exactly 6, no
\* index is its own neighbor and no neighbor list holds a duplicate.
C9_NeighborCounts ==
    (call.fn = "getAdjacentPositions" /\ call.positionIndex \in DocIndices)
    => /\ call.positionIndex \in 1 .. 20 => Len(ret) \in 3 .. 6
       /\ call.positionIndex \in {0, 21} => Len(ret) = 6
       /\ call.positionIndex \notin SeqRange(ret)
       /\ Cardinality(SeqRange(ret)) = Len(ret)

\* The neighbors of the nadir are the six lower positions.
C9_Witness ==
    /\ call.fn = "getAdjacentPositions"
    /\ call.positionIndex = 21
    /\ ret = <<15, 16, 17, 18, 19, 20>>

\* The documented neighbor rule for the ordered pair (i, j), i # j.
DocNeighbors(i, j) ==
    LET ri == DocRing(i)
        rj == DocRing(j)
        hd == SmallestAngle(DocHeading(i), DocHeading(j))
    IN  \/ (ri = "equator" /\ rj = "equator" /\ hd <= 50)
        \/ (ri = "upper" /\ rj = "upper" /\ hd <= 65)
        \/ (ri = "lower" /\ rj = "lower" /\ hd <= 65)
        \/ ({ri, rj} = {"zenith", "upper"})
        \/ ({ri, rj} = {"nadir", "lower"})
        \/ ({ri, rj} \in {{"equator", "upper"}, {"equator", "lower"}} /\ hd <= 35)

\* C10: for i # j, j is a neighbor of i exactly when the documented rule
\* holds for the pair; every other pair is never adjacent.
C10_NeighborRule ==
    (call.fn = "getAdjacentPositions" /\ call.positionIndex \in DocIndices)
    => /\ SeqRange(ret) \subseteq DocIndices
       /\ \A j \in DocIndices \ {call.positionIndex} :
             (j \in SeqRange(ret)) <=> DocNeighbors(call.positionIndex, j)

\* Index 7 (equator, heading 0): its neighbors are the upper position at 0,
\* the equator positions at 45 and 315 and the lower positions at 30 and 330.
C10_Witness ==
    /\ call.fn = "getAdjacentPositions"
    /\ call.positionIndex = 7
    /\ ret = <<1, 8, 14, 15, 20>>

-----------------------------------------------------------------------------
(* C16: ring progress                                                       *)

\* C16: for a captured set within 0 .. 21, getRingProgress reports for each
\* ring done = the number of captured indices of that ring and total = the
\* ring's size (1, 6, 8, 6, 1); done <= total, and the five done counts add up
\* to the size of the captured set.
C16_RingProgress ==
    (call.fn = "getRingProgress" /\ call.capturedSet \subseteq DocIndices)
    => /\ \A ring \in DOMAIN DocRingSize :
             /\ ret[ring].total = DocRingSize[ring]
             /\ ret[ring].done =
                   Cardinality({i \in call.capturedSet : DocRing(i) = ring})
             /\ ret[ring].done <= ret[ring].total
       /\ ret.zenith.done + ret.upper.done + ret.equator.done
          + ret.lower.done + ret.nadir.done = Cardinality(call.capturedSet)

\* The whole equator and one upper position captured: 8 of 8 and 1 of 6.
C16_Witness ==
    /\ call.fn = "getRingProgress"
    /\ call.capturedSet = (7 .. 14) \cup {3}
    /\ ret.equator.done = 8
    /\ ret.upper.done = 1
    /\ ret.lower.done = 0

-----------------------------------------------------------------------------
(* C11 .. C15, C17: the capture session                                     *)

\* The not-aligned verdict: the three flags false.
NotAlignedVerdict(v) == ~v.aligned /\ ~v.headingAligned /\ ~v.pitchAligned

\* What a page mounted afresh shows once it has the orientation h, p: nothing
\* captured, no start heading.
FreshActiveIndex(h, p) == activeIndexOf(<<>>, h, p, null)

FreshAlignment(h, p) == alignmentOf(h, p, FreshActiveIndex(h, p), null)

\* The verdict of an alignment result: its three flags, the deltas left out.
Verdict(v) == <<v.aligned, v.headingAligned, v.pitchAligned>>

\* C11: after handleReset the captured map is empty and the start heading is
\* unset, and the active target and the alignment verdict the page shows are
\* those of a freshly mounted page with the same orientation; the state is a
\* fixed point of the reset (the handler's writes would leave it as it is).
C11_ResetLikeFresh ==
    call.fn = "handleReset"
    => /\ capturedMap = <<>>
       /\ startHeadingRef = null
       /\ activeIndex = FreshActiveIndex(orientation.heading, orientation.pitch)
       /\ Verdict(alignment)
          = Verdict(FreshAlignment(orientation.heading, orientation.pitch))

\* C12: a start heading that is set keeps its value in every step but a
\* handleReset, which unsets it and empties the captured map in the same
\* step; no capture, orientation update or other step clears or overwrites it.
C12_StartHeadingKept ==
    [][(startHeadingRef # null /\ startHeadingRef' # startHeadingRef)
       => /\ call'.fn = "handleReset"
          /\ startHeadingRef' = null
          /\ capturedMap' = <<>>]_vars

\* A second capture taken after the device turned away from the start
\* heading: the start heading is still that of the first capture.
C12_Witness ==
    /\ call.fn = "handleCapture"
    /\ ~call.returned
    /\ Cardinality(DOMAIN capturedMap) = 2
    /\ startHeadingRef = Some(0)
    /\ orientation.heading = Some(45)

\* C13: a successful capture (session not complete, active index a, the frame
\* grab returned an image) maps a to the new image and leaves every other
\* entry as it was; a was not captured before, so the map grows by exactly
\* one; and the keys of the captured map always lie within 0 .. 21.
C13_CaptureAddsActive ==
    [][/\ DOMAIN capturedMap' \subseteq DocIndices
       /\ (/\ call'.fn = "handleCapture"
           /\ ~call'.returned
           /\ call'.dataUrl # null)
          => /\ ~isCompleteOf(capturedMap)
             /\ activeIndex # null
             /\ activeIndex[1] \notin DOMAIN capturedMap
             /\ DOMAIN capturedMap' = DOMAIN capturedMap \cup {activeIndex[1]}
             /\ capturedMap'[activeIndex[1]] = call'.dataUrl[1]
             /\ \A k \in DOMAIN capturedMap : capturedMap'[k] = capturedMap[k]
             /\ Cardinality(DOMAIN capturedMap')
                = Cardinality(DOMAIN capturedMap) + 1]_vars

\* The third successful capture of a session that began at heading 0: the
\* equator positions 7 and 8 and a third one.
C13_Witness ==
    /\ call.fn = "handleCapture"
    /\ ~call.returned
    /\ call.dataUrl # null
    /\ Cardinality(DOMAIN capturedMap) = 3
    /\ {7, 8} \subseteq DOMAIN capturedMap

\* C14: in every reachable state isComplete holds exactly when the captured
\* map has 22 entries, which are then all of 0 .. 21, and the active target is
\* none exactly when the session is complete; a capture in a complete session
\* changes neither the captured map nor the start heading.
C14_Completion ==
    /\ [](/\ isCompleteOf(capturedMap) <=> Cardinality(DOMAIN capturedMap) = 22
          /\ isCompleteOf(capturedMap) <=> DOMAIN capturedMap = DocIndices
          /\ activeIndex = null <=> isCompleteOf(capturedMap))
    /\ [][(call'.fn = "handleCapture" /\ isCompleteOf(capturedMap))
          => /\ capturedMap' = capturedMap
             /\ startHeadingRef' = startHeadingRef]_vars

\* The capture handler ran in a complete session and returned at once.
C14_Witness ==
    /\ call.fn = "handleCapture"
    /\ call.returned
    /\ call.dataUrl # null
    /\ DOMAIN capturedMap = DocIndices
    /\ activeIndex = null
    /\ startHeadingRef # null

\* The file name the upload step reads the position index from.
DocFileName(i) ==
    "photo_" \o (IF i < 10 THEN "0" ELSE "") \o ToString(i) \o ".jpg"

\* C15: handleDone posts one photo per captured index, in strictly ascending
\* index order, and a metadata list with one record per captured index in the
\* same order: index, heading = (start heading, or 0 if unset, + the
\* position's heading) mod 360, pitch and ring of the position; the index
\* fields of the records are exactly the captured index set.
C15_UploadOrder ==
    call.fn = "handleDone"
    => /\ upload # null
       /\ LET photos == upload[1].photos
              meta == upload[1].positions
              start == IF startHeadingRef = null THEN 0 ELSE startHeadingRef[1]
          IN  /\ Len(photos) = Cardinality(DOMAIN capturedMap)
              /\ Len(meta) = Len(photos)
              /\ \A k \in 1 .. Len(meta) - 1 : meta[k].index < meta[k + 1].index
              /\ {meta[k].index : k \in 1 .. Len(meta)} = DOMAIN capturedMap
              /\ \A k \in 1 .. Len(meta) :
                    /\ photos[k].filename = DocFileName(meta[k].index)
                    /\ photos[k].blob = capturedMap[meta[k].index]
                    /\ meta[k].heading
                       = (start + DocHeading(meta[k].index)) % 360
                    /\ meta[k].pitch = DocPitch(meta[k].index)
                    /\ meta[k].ring = DocRing(meta[k].index)

\* A complete session whose start heading is 45 is handed over: the first
\* record is the zenith, the tenth is index 9 at heading (45 + 90) mod 360.
C15_Witness ==
    /\ call.fn = "handleDone"
    /\ startHeadingRef = Some(45)
    /\ Len(upload[1].photos) = 22
    /\ upload[1].photos[1].filename = "photo_00.jpg"
    /\ upload[1].positions[10].index = 9
    /\ upload[1].positions[10].heading = 135
    /\ upload[1].positions[22].ring = "nadir"

\* C17: every step leaves the page with the not-aligned verdict (aligned,
\* headingAligned and pitchAligned all false) if the heading or the pitch is
\* null, and also if the start heading is unset, whatever the target; and a
\* heading (a pitch) the hook has published as a number is not null after
\* the step.
C17_UnknownIsNotAligned ==
    [][/\ (orientation'.heading = null \/ orientation'.pitch = null)
          => NotAlignedVerdict(alignment')
       /\ startHeadingRef' = null => NotAlignedVerdict(alignment')
       /\ orientation.heading # null => orientation'.heading # null
       /\ orientation.pitch # null => orientation'.pitch # null]_vars

-----------------------------------------------------------------------------
(* C18 .. C20: the pinhole projection of the overlay                        *)

\* The forward component of the documented projection, in units of Scale^3:
\* sin p sin cp + cos p cos cp cos relH, relH the heading off the camera's.
DocForward(relH, gridP, camP) ==
    Sin(gridP) * Sin(camP) * Scale + Cos(gridP) * Cos(camP) * Cos(relH)

\* The heading of the grid point off the camera heading, in 0 .. 719.
HeadingOff(c) == (c.startH + c.gridH - c.camH) % 720

\* C18: a grid point whose absolute heading startH + gridH is the camera
\* heading and whose pitch is the camera pitch is not flagged behind and
\* projects to the screen center (cx, cy) exactly.
C18_CenterProjection ==
    (/\ call.fn = "proj"
     /\ call.startH + call.gridH = call.camH
     /\ call.gridP = call.camP)
    => /\ ~ret.behind
       /\ ret.x = call.cx
       /\ ret.y = call.cy

\* Start heading 45, grid heading 120, camera at heading 165 and pitch 55.
C18_Witness ==
    /\ call.fn = "proj"
    /\ call.startH = 90 /\ call.gridH = 240 /\ call.camH = 330
    /\ call.gridP = 110 /\ call.camP = 110
    /\ ret = [x |-> call.cx, y |-> call.cy, behind |-> FALSE]

\* C19, as stated: a grid point exactly 90 degrees off the camera heading has
\* zR <= 0 and is flagged behind, whatever the grid pitch and the camera pitch.
C19_QuarterTurnBehind ==
    (call.fn = "proj" /\ HeadingOff(call) \in {180, 540})
    => /\ DocForward(HeadingOff(call), call.gridP, call.camP) <= 0
       /\ ret.behind

\* C19, amended: a grid point exactly 90 degrees off the camera heading has
\* zR = sin(gridP) * sin(camP); it is flagged behind exactly when that product
\* is at most 0.01, so whenever one of the two pitches is 0 or they lie on
\* opposite sides of the horizon, and it is projected (not behind) when both
\* lie on the same side and the product exceeds 0.01.
C19_QuarterTurnBySign ==
    (call.fn = "proj" /\ HeadingOff(call) \in {180, 540})
    => /\ ret.behind <=> Sin(call.gridP) * Sin(call.camP) * Scale
                         <= BehindThreshold
       /\ (call.gridP * call.camP <= 0) => ret.behind
       /\ ~ret.behind => call.gridP * call.camP > 0

\* A point of the upper ring 90 degrees to the right of a camera that is
\* pitched down by 55 degrees: behind.
C19_Witness ==
    /\ call.fn = "proj"
    /\ HeadingOff(call) = 180
    /\ call.gridP = 110
    /\ call.camP = 0 - 110
    /\ ret.behind

\* Whether the documented projection puts sample <<h, pitch>> in front of the
\* camera of the view: zR > 0.01.
DocVisible(view, sample) ==
    DocForward(view.startH + sample[1] - view.camH, sample[2], view.camP)
    > BehindThreshold

\* The indices of the visible samples, in order.
DocVisibleIndices(view, samples) ==
    LET Test(k) == DocVisible(view, samples[k])
    IN  SelectSeq([k \in 1 .. Len(samples) |-> k], Test)

\* The polyline rule: one call per visible sample, at its coordinates; lineTo
\* if the sample before it is visible too, moveTo otherwise.
DocPolyline(view, samples, calls) ==
    LET v == DocVisibleIndices(view, samples)
    IN  /\ Len(calls) = Len(v)
        /\ \A j \in 1 .. Len(v) :
              LET pt == PFn(view, samples[v[j]][1], samples[v[j]][2])
              IN  /\ calls[j].x = pt.x
                  /\ calls[j].y = pt.y
                  /\ calls[j].op =
                        IF v[j] > 1 /\ DocVisible(view, samples[v[j] - 1])
                        THEN "lineTo"
                        ELSE "moveTo"

\* C20: proj flags a point behind exactly when zR <= 0.01 and always returns
\* a point; cellPoints returns the projections of its visible samples and of
\* no behind sample; drawLabel makes no call for a marker that is behind;
\* addRing and addVert make one call per visible sample, a lineTo only when
\* the sample before it is visible too and a moveTo otherwise, so a polyline
\* never runs across a behind sample.
C20_BehindNeverDrawn ==
    /\ call.fn = "proj"
       => /\ ret.behind
             <=> DocForward(call.startH + call.gridH - call.camH, call.gridP,
                            call.camP) <= BehindThreshold
          /\ DOMAIN ret = {"x", "y", "behind"}
          /\ ret.behind => (ret.x = 0 /\ ret.y = 0)
    /\ call.fn = "cellPoints"
       => LET samples == cellSamples(call.cell)
              v == DocVisibleIndices(call.view, samples)
          IN  /\ Len(ret) = Len(v)
              /\ \A j \in 1 .. Len(v) :
                    /\ ~ret[j].behind
                    /\ ret[j] = PFn(call.view, samples[v[j]][1],
                                    samples[v[j]][2])
    /\ call.fn = "drawLabel"
       => LET marker == <<2 * DocHeading(call.cell.posIndex),
                          2 * DocPitch(call.cell.posIndex)>>
          IN  (ret = <<>>) <=> ~DocVisible(call.view, marker)
    /\ call.fn = "addRing"
       => DocPolyline(call.view, ringSamples(call.pitch), ret)
    /\ call.fn = "addVert"
       => DocPolyline(call.view,
                      vertSamples(call.heading, call.pTop, call.pBot), ret)

\* The ring at pitch 72.5 seen by a level camera at heading 0: the arc in
\* front of the camera is drawn as two polylines, one from heading 0 on and
\* one up to heading 360, with the samples behind the camera between them.
C20_Witness ==
    /\ call.fn = "addRing"
    /\ call.pitch = 145
    /\ call.view.camH = 0 /\ call.view.camP = 0 /\ call.view.startH = 0
    /\ Cardinality({j \in 1 .. Len(ret) : ret[j].op = "moveTo"}) = 2
    /\ ret[1].op = "moveTo"
    /\ ret[2].op = "lineTo"
    /\ Len(ret) < Len(ringSamples(call.pitch))

-----------------------------------------------------------------------------
(* C21 .. C26: the orientation hook and the capture session, continued      *)

\* Math.round of an angle in half degrees: a whole number of degrees as it
\* is, a half rounded up (toward plus infinity).
DocRound(halfDegrees) ==
    IF halfDegrees % 2 = 0
    THEN halfDegrees \div 2
    ELSE (halfDegrees - 1) \div 2 + 1

\* The debounce rule for one channel: the sample is propagated (remembered
\* raw, published rounded) if it is the first one or is more than 2 degrees
\* off the remembered one; otherwise both values stay.
DocDebounced(sample, last, published, lastAfter, publishedAfter) ==
    IF sample # null /\ (last = null \/ Abs(sample[1] - last[1]) > 4)
    THEN lastAfter = sample /\ publishedAfter = <<DocRound(sample[1])>>
    ELSE lastAfter = last /\ publishedAfter = published

\* C21: the hook propagates a heading sample exactly when it is the first
\* heading sample or differs from the last propagated raw heading by more
\* than 2 degrees; pitch is debounced the same way, independently of the
\* heading; a sample that is not propagated changes neither the published
\* value nor the remembered one.
C21_Debounce ==
    [][call'.fn = "handleOrientation"
       => /\ DocDebounced(newHeadingOf(call'.event), lastHeading,
                          orientation.heading, lastHeading',
                          orientation'.heading)
          /\ DocDebounced(newPitchOf(call'.event), lastPitch,
                          orientation.pitch, lastPitch', orientation'.pitch)]_vars

\* A sample at heading 2 / pitch 2 arrives after pitch 0 was propagated and
\* a heading further away: the heading is propagated, the pitch, exactly 2
\* degrees off, is not.
C21_Witness ==
    /\ call.fn = "handleOrientation"
    /\ newHeadingOf(call.event) = Some(4)
    /\ newPitchOf(call.event) = Some(4)
    /\ lastHeading = Some(4)
    /\ orientation.heading = Some(2)
    /\ lastPitch = Some(0)
    /\ orientation.pitch = Some(0)

\* C22: a published heading is null or a number in [0, 360), 360 excluded,
\* and a published pitch is null or in [-90, 90], for sensor readings with
\* compass heading and alpha in [0, 360) and beta, gamma in [-180, 180].
C22_PublishedRanges ==
    /\ orientation.heading # null
       => (0 <= orientation.heading[1] /\ orientation.heading[1] < 360)
    /\ orientation.pitch # null
       => (0 - 90 <= orientation.pitch[1] /\ orientation.pitch[1] <= 90)

\* C23: after every action of the page the displayed active target is
\* getNextUncaptured(captured set, heading or 0, pitch or 0, start heading or
\* 0) of the current state, and the displayed alignment verdict is the one
\* computed from the current heading, pitch, active target and start heading.
C23_NothingStale ==
    /\ activeIndex = getNextUncaptured(DOMAIN capturedMap,
                                       OrZero(orientation.heading),
                                       OrZero(orientation.pitch),
                                       OrZero(startHeadingRef))
    /\ alignment = alignmentOf(orientation.heading, orientation.pitch,
                               activeIndex, startHeadingRef)

\* C24: whenever the captured map is not empty the start heading is set, and
\* no step sets the start heading while photos are already recorded.
C24_StartBeforeFirstPhoto ==
    [][/\ capturedMap' # <<>> => startHeadingRef' # null
       /\ (startHeadingRef = null /\ startHeadingRef' # null)
          => capturedMap = <<>>]_vars

\* C25: a successful capture that sets the start heading to H records the
\* photo under the index getNextUncaptured returns for the captured set
\* before the capture, the current orientation and the start heading H; a
\* first photo at level pitch is therefore recorded under index 7.
C25_FirstPhotoIndex ==
    [][(/\ call'.fn = "handleCapture"
        /\ ~call'.returned
        /\ call'.dataUrl # null
        /\ startHeadingRef = null
        /\ startHeadingRef' # null)
       => LET expected == getNextUncaptured(DOMAIN capturedMap,
                                            OrZero(orientation.heading),
                                            OrZero(orientation.pitch),
                                            startHeadingRef'[1])
          IN  /\ expected # null
              /\ DOMAIN capturedMap' = DOMAIN capturedMap \cup {expected[1]}
              /\ (capturedMap = <<>> /\ orientation.pitch = Some(0))
                 => DOMAIN capturedMap' = {7}]_vars

\* C26: a capture whose frame grab returns no image leaves the captured map
\* and the start heading as they were.
C26_FailedCaptureNoChange ==
    [][(call'.fn = "handleCapture" /\ call'.dataUrl = null)
       => /\ capturedMap' = capturedMap
          /\ startHeadingRef' = startHeadingRef]_vars

\* C27: handleDone runs only with all 22 positions captured and posts exactly
\* 22 photos, and the upload route does not reject the request of an
\* authenticated user because of the number of photos.
C27_UploadAccepted ==
    /\ call.fn = "handleDone"
       => (DOMAIN capturedMap = DocIndices /\ Len(upload[1].photos) = 22)
    /\ (call.fn = "handleDone.catch" /\ call.user)
       => call.uploadRes.status # 400

-----------------------------------------------------------------------------
(* C28: the globe minimap                                                   *)

\* C28: a catalog position whose absolute heading (startHeading +
\* position.heading) mod 360 is the current heading and whose pitch is the
\* current pitch is drawn by the minimap at the canvas center with depth 1
\* (here: within one pixel of the center and with depth at least 0.99, the
\* resolution of the fixed-point arithmetic).
C28_ViewDirectionAtCenter ==
    (/\ call.fn = "SphereGuide.draw"
     /\ (call.startHeading + DocHeading(call.index)) % 360
        = call.currentHeading % 360
     /\ DocPitch(call.index) = call.currentPitch)
    => /\ ret.drawn
       /\ Abs(ret.dot.x - ret.cx) <= 1
       /\ Abs(ret.dot.y - ret.cy) <= 1
       /\ ret.dot.z * 100 >= 99 * Scale * Scale

-----------------------------------------------------------------------------
(* C29, C30: adjacency and the cell table                                   *)

\* C29: for all i and j in 0 .. 21, j is in getAdjacentPositions(i) exactly
\* when i is in getAdjacentPositions(j).
C29_AdjacencySymmetric ==
    (call.fn = "getAdjacentPositions" /\ call.positionIndex \in DocIndices)
    => \A j \in DocIndices :
          (j \in SeqRange(ret))
          <=> (call.positionIndex \in SeqRange(getAdjacentPositions(j)))

\* The upper position at heading 0 lists the zenith and the equator position
\* at heading 0, and both list it.
C29_Witness ==
    /\ call.fn = "getAdjacentPositions"
    /\ call.positionIndex = 1
    /\ {0, 7} \subseteq SeqRange(ret)
    /\ 1 \in SeqRange(getAdjacentPositions(0))
    /\ 1 \in SeqRange(getAdjacentPositions(7))

\* The cells of the band between two pitches.
DocBand(pTop, pBot) ==
    {k \in 1 .. Len(CELLS) : CELLS[k].pTop = pTop /\ CELLS[k].pBot = pBot}

DocBands == {<<CELLS[k].pTop, CELLS[k].pBot>> : k \in 1 .. Len(CELLS)}

\* C30: CELLS has one cell per catalog index 0 .. 21, with posIndex that
\* index; the cells of each band cover every heading exactly once and the
\* bands cover every pitch of [-90, 90) exactly once; and the marker drawLabel
\* draws for a non-polar cell lies strictly inside the cell: hStart < heading
\* < hEnd and pBot < pitch < pTop (angles in half degrees).
C30_CellTable ==
    /\ Loaded
       => /\ Len(CELLS) = 22
          /\ \A i \in DocIndices : CELLS[i + 1].posIndex = i
          /\ \A band \in DocBands, h \in 0 .. 719 :
                Cardinality({k \in DocBand(band[1], band[2]) :
                                (h - CELLS[k].hStart) % 720
                                < CELLS[k].hEnd - CELLS[k].hStart
                                \/ CELLS[k].hEnd - CELLS[k].hStart = 720}) = 1
          /\ \A pitch \in (0 - 180) .. 179 :
                Cardinality({band \in DocBands :
                                band[2] <= pitch /\ pitch < band[1]}) = 1
    /\ (call.fn = "drawLabel" /\ ~call.cell.isCap)
       => LET i == call.cell.posIndex
          IN  /\ call.cell.hStart < 2 * DocHeading(i)
              /\ 2 * DocHeading(i) < call.cell.hEnd
              /\ call.cell.pBot < 2 * DocPitch(i)
              /\ 2 * DocPitch(i) < call.cell.pTop

=============================================================================
